---- MODULE Spec2Model ----
(***************************************************************************)
(* Model of the license lease server (Server.py) and of the license        *)
(* client (Client.py).                                                     *)
(*                                                                         *)
(* The server keeps one LicenseInfo per roster holder.  Requests are       *)
(* served by threads (ClientHandler) that read and write the LicenseInfo   *)
(* fields without any lock, next to the expiry-check thread                *)
(* (schedule_license_expiry_check).  Every read or write of a shared field *)
(* is one step of the model, so that the threads interleave as Python      *)
(* threads do.  The code never tells one request thread from another, so   *)
(* the threads are kept as a bag of thread states.                         *)
(***************************************************************************)
EXTENDS Integers, Sequences, FiniteSets, Bags, TLC

\* ------------------------------------------------------------------ bounds
MaxClock == 2       \* the wall clock runs from 0 to MaxClock
NumWorkers == 2     \* connections kept: being served, or served and closed
MaxThreads == 2     \* request threads of the client alive at the same time
MaxQueue == 2       \* events the client's scheduler queue can hold

\* --------------------------------------------------------------- constants
None == -1          \* Python None for a time value (expiry_time=None)
JsonNull == <<>>    \* JSON null in the "expired" field of a response

Threads == 1..MaxThreads

\* the port main() reads from the user and passes to start()
ServerPort == 5000

\* licenses.json: holder name -> ValidationTime, in file order
RosterOrder == <<"alice">>
Roster == {RosterOrder[i] : i \in 1..Len(RosterOrder)}
ValidationTime(u) == 1

\* names a request can carry: the roster holders and one unknown holder
Names == Roster \cup {"bob"}

\* generate_key: the MD5 hex digest of the user name
generate_key(u) ==
    CASE u = "alice" -> "6384e2b2184bcbf58eccf10ca7a6563c"
      [] u = "bob"   -> "9f9d51bc70ef21ca5c14f307980a29d8"
      [] OTHER       -> "d41d8cd98f00b204e9800998ecf8427e"

STOP == "STOP"
Keys == {generate_key(u) : u \in Names} \cup {STOP}

\* Request(license_user_name, license_key)
Request(u, k) == [license_user_name |-> u, license_key |-> k]
Requests == {Request(u, k) : u \in Names, k \in Keys}

\* what one recv on a connection yields: a request, or nothing
Data == {<<r>> : r \in Requests} \cup {<<>>}

\* datetime.isoformat(): the text of a time value, here its decimal digits
RECURSIVE isoformat(_)
isoformat(t) ==
    IF t < 10 THEN <<t>> ELSE Append(isoformat(t \div 10), t % 10)

\* Response(license_user_name, license_valid, description, expired).to_dict()
Response(u, valid, description, expired) ==
    [license_user_name |-> u,
     license_valid     |-> valid,
     description       |-> description,
     expired           |-> IF expired # None THEN isoformat(expired)
                           ELSE JsonNull]

\* the reply handle_client sends to whatever it received
ClosedMessage ==
    [license_user_name |-> "Server",
     license_valid     |-> FALSE,
     description       |-> "Connection with server has been closed.",
     expired           |-> JsonNull]

\* LicenseInfo(license_user_name, validation_time)
LicenseInfo(u, v) ==
    [license_user_name |-> u, validation_time |-> v,
     expiry_time |-> None, is_used |-> FALSE]

\* what a thread found when it read is_used at line 211: the flag, and the
\* expiry of the lease that had run out when the flag was off (None if no
\* lease had run out)
Found(license_info, now) ==
    [is_used |-> license_info.is_used,
     lapsed  |-> IF /\ ~license_info.is_used
                    /\ license_info.expiry_time # None
                    /\ now > license_info.expiry_time
                 THEN license_info.expiry_time ELSE None]

\* nothing read yet
NotSeen == [is_used |-> FALSE, lapsed |-> None]

\* a connection and the thread that serves it: where the thread is, the
\* <<request>> it received, what it found at line 211, its last
\* datetime.now(), and the responses sent on the connection so far
Thread(pc, data, seen, now, sent) ==
    [pc |-> pc, data |-> data, seen |-> seen, now |-> now, sent |-> sent]

\* a thread that has ended leaves only what it sent
Ended(sent) == Thread("closed", <<>>, NotSeen, None, sent)

\* the expiry times a lease can have within the bounds
Times == 0..(MaxClock + 1)

\* the lines of handle_request a thread can stand at
Lines == {"l211", "l211exp", "l212", "l213", "l213set", "l215", "l218"}

\* everything a thread can have found at line 211
Seen ==
    {[is_used |-> TRUE, lapsed |-> None]}
    \cup {[is_used |-> FALSE, lapsed |-> e] : e \in Times \cup {None}}

\* the datetime.now() a thread at line pc can hold: it is read at line 213
Nows(pc) == IF pc \in {"l213set", "l215"} THEN 0..MaxClock ELSE {None}

\* every state a thread inside handle_request can be in: only a request for
\* a roster holder with the holder's key gets as far as line 211
Running ==
    UNION {{Thread(pc, <<Request(u, generate_key(u))>>, seen, now, <<>>) :
              u \in Roster, seen \in Seen, now \in Nows(pc)} : pc \in Lines}

VARIABLES
    clock,        \* datetime.now() of the server host
    licenses,     \* LicenseServer.licenses: holder -> LicenseInfo
    connections,  \* the bag of connections with their threads
    rpc,          \* expiry-check thread: where it is
    rnow,         \* expiry-check thread: "now" of the current scan
    ri,           \* expiry-check thread: index of the license being looked at

    \* ---- the client (one LicenseClientAPI instance)
    current_token,  \* <<>> for None, or <<token>>
    queue,          \* sched.scheduler queue: the events entered, in order
    tpc,            \* per request thread: where it is
    ttoken,         \* per request thread: new_token inside update_token
    api,            \* license_user_name, license_key, server_address and
                    \* server_port of the instance
    stopped,        \* "" until stop() is called, then how the call ended
    returned        \* <<>> until get_license_token is called, then <<v>>
                    \* for the value v its last call returned

serverVars == <<licenses, connections, rpc, rnow, ri>>
callerVars == <<api, stopped, returned>>
clientVars == <<current_token, queue, tpc, ttoken, callerVars>>
vars == <<clock, serverVars, clientVars>>

\* LicenseServer.__init__ / load_licenses
ServerInit ==
    /\ licenses = [u \in Roster |-> LicenseInfo(u, ValidationTime(u))]
    /\ connections = EmptyBag
    /\ rpc = "sleep"
    /\ rnow = None
    /\ ri = 1

\* LicenseClientAPI.__init__, then start() and set_license() as main() calls
\* them: no token, nothing scheduled, no request thread
ClientInit ==
    /\ current_token = <<>>
    /\ queue = <<>>
    /\ tpc = [t \in Threads |-> "none"]
    /\ ttoken = [t \in Threads |-> <<>>]
    /\ api = [license_user_name |-> "alice",
              license_key       |-> generate_key("alice"),
              server_address    |-> "127.0.0.1",
              server_port       |-> ServerPort]
    /\ stopped = ""
    /\ returned = <<>>

Init ==
    /\ clock = 0
    /\ ServerInit
    /\ ClientInit

\* time passes
Tick ==
    /\ clock < MaxClock
    /\ clock' = clock + 1
    /\ UNCHANGED serverVars
    /\ UNCHANGED clientVars

\* the connections in the bag
Open == BagToSet(connections)

\* the bag with thread d in the place of thread c
Replace(c, d) == (connections (-) SetToBag({c})) (+) SetToBag({d})

\* a new connection is taken by an accept loop and its thread runs as far as
\* it can without reading the lease record, which leaves it as d; when
\* NumWorkers connections are kept, one that is closed is forgotten
Accepted(d) ==
    /\ IF BagCardinality(connections) < NumWorkers
       THEN connections' = connections (+) SetToBag({d})
       ELSE \E c \in Open : c.pc = "closed" /\ connections' = Replace(c, d)
    /\ UNCHANGED <<clock, licenses, rpc, rnow, ri>>
    /\ UNCHANGED clientVars

\* thread c takes a step that leaves it as d and writes nothing shared
Local(c, d) ==
    /\ connections' = Replace(c, d)
    /\ UNCHANGED <<clock, licenses, rpc, rnow, ri>>
    /\ UNCHANGED clientVars

\* the holder thread c works for
holder(c) == c.data[1].license_user_name

\* handle_client: one recv, then the fixed reply (nothing on empty data)
handle_client(data) ==
    IF data = <<>> THEN Ended(<<>>) ELSE Ended(<<ClosedMessage>>)

\* LicenseServer.run: accept() and executor.submit(handle_client, socket).
\* handle_client touches nothing shared, so it runs in the same step.
LicenseServerRun(data) == Accepted(handle_client(data))

\* ClientHandlerRun with the key check of lines 202-208 left out
ClientHandlerRun_NoKeyCheck(data) ==
    IF data = <<>>
    THEN Ended(<<>>)
    ELSE IF data[1].license_user_name \notin Roster
    THEN Ended(<<Response(data[1].license_user_name, FALSE,
                          "Token not found", None)>>)
    ELSE Thread("l211", data, NotSeen, None, <<>>)

\* ClientHandlerRun with the key check done before the roster lookup
ClientHandlerRun_KeyFirst(data) ==
    IF data = <<>>
    THEN Ended(<<>>)
    ELSE IF generate_key(data[1].license_user_name) # data[1].license_key
    THEN Ended(<<Response(data[1].license_user_name, FALSE,
                          "Invalid key", None)>>)
    ELSE IF data[1].license_user_name \notin Roster
    THEN Ended(<<Response(data[1].license_user_name, FALSE,
                          "Token not found", None)>>)
    ELSE Thread("l211", data, NotSeen, None, <<>>)

\* ClientHandler.run up to the first read of the lease record: recv,
\* json.loads, Request(**request), then handle_request lines 193-208.
\* json.loads of no data raises: the exception is printed, nothing is sent.
\* The result is the thread as it stands after these lines.
ClientHandlerRun(data) ==
    IF data = <<>>
    THEN Ended(<<>>)
    ELSE LET request == data[1]
             license_user_name == request.license_user_name
         IN  IF license_user_name \notin Roster
             THEN Ended(<<Response(license_user_name, FALSE,
                                   "Token not found", None)>>)
             ELSE IF generate_key(license_user_name) # request.license_key
             THEN Ended(<<Response(license_user_name, FALSE,
                                   "Invalid key", None)>>)
             ELSE Thread("l211", data, NotSeen, None, <<>>)

\* start_server: accept() and ClientHandler(socket, licenses).start().
\* The thread's steps before line 211 touch nothing shared, so they run in
\* the same step.
StartServer(data) == Accepted(ClientHandlerRun(data))

\* line 211, left operand: not license_info.is_used
ReadIsUsed(c) ==
    /\ c.pc = "l211"
    /\ BagIn(c, connections)
    /\ Local(c, [c EXCEPT
                   !.seen = Found(licenses[holder(c)], clock),
                   !.pc = IF ~licenses[holder(c)].is_used
                          THEN "l212" ELSE "l211exp"])

\* CompareNow with the lease taken as over at its expiry time already
\* (now >= expiry_time)
CompareNow_AtExpiry(c) ==
    /\ c.pc = "l211exp"
    /\ BagIn(c, connections)
    /\ Local(c, [c EXCEPT
                   !.pc = IF /\ licenses[holder(c)].expiry_time # None
                             /\ clock >= licenses[holder(c)].expiry_time
                          THEN "l212" ELSE "l218"])

\* line 211, right operand:
\* license_info.expiry_time and datetime.now() > license_info.expiry_time
CompareNow(c) ==
    /\ c.pc = "l211exp"
    /\ BagIn(c, connections)
    /\ Local(c, [c EXCEPT
                   !.pc = IF /\ licenses[holder(c)].expiry_time # None
                             /\ clock > licenses[holder(c)].expiry_time
                          THEN "l212" ELSE "l218"])

\* line 212: license_info.is_used = True
SetUsed(c) ==
    /\ c.pc = "l212"
    /\ BagIn(c, connections)
    /\ licenses' = [licenses EXCEPT ![holder(c)].is_used = TRUE]
    /\ connections' = Replace(c, [c EXCEPT !.pc = "l213"])
    /\ UNCHANGED <<clock, rpc, rnow, ri>>
    /\ UNCHANGED clientVars

\* line 213, right-hand side: datetime.now()
ReadNow(c) ==
    /\ c.pc = "l213"
    /\ BagIn(c, connections)
    /\ Local(c, [c EXCEPT !.now = clock, !.pc = "l213set"])

\* line 213, the assignment: expiry_time = now + validation_time
SetExpiry(c) ==
    /\ c.pc = "l213set"
    /\ BagIn(c, connections)
    /\ licenses' = [licenses EXCEPT ![holder(c)].expiry_time =
                      c.now + licenses[holder(c)].validation_time]
    /\ connections' = Replace(c, [c EXCEPT !.pc = "l215"])
    /\ UNCHANGED <<clock, rpc, rnow, ri>>
    /\ UNCHANGED clientVars

\* lines 214-215 and 221-222: "License issued" with the expiry_time read now;
\* sendall is the last thing the thread does
RespondIssued(c) ==
    /\ c.pc = "l215"
    /\ BagIn(c, connections)
    /\ Local(c, Ended(<<Response(holder(c), TRUE, "License issued",
                                 licenses[holder(c)].expiry_time)>>))

\* lines 218 and 221-222: "License already in use" with the expiry_time read
\* now
RespondInUse(c) ==
    /\ c.pc = "l218"
    /\ BagIn(c, connections)
    /\ Local(c, Ended(<<Response(holder(c), TRUE, "License already in use",
                                 licenses[holder(c)].expiry_time)>>))

\* schedule_license_expiry_check, line 122: a scan starts, now is read once
ExpiryCheckWake ==
    /\ rpc = "sleep"
    /\ rpc' = "l124"
    /\ rnow' = clock
    /\ ri' = 1
    /\ UNCHANGED <<clock, licenses, connections>>
    /\ UNCHANGED clientVars

\* line 124: the condition on the license under the cursor; line 126 when
\* the loop is over
ExpiryCheckTest ==
    /\ rpc = "l124"
    /\ IF ri > Len(RosterOrder)
       THEN /\ rpc' = "sleep"
            /\ rnow' = None
            /\ ri' = 1
       ELSE LET license_t == licenses[RosterOrder[ri]] IN
            IF /\ license_t.expiry_time # None
               /\ license_t.expiry_time < rnow
               /\ license_t.is_used
            THEN /\ rpc' = "l125"
                 /\ UNCHANGED <<ri, rnow>>
            ELSE /\ ri' = ri + 1
                 /\ UNCHANGED <<rpc, rnow>>
    /\ UNCHANGED <<clock, licenses, connections>>
    /\ UNCHANGED clientVars

\* line 125: license_t.is_used = False
ExpiryCheckWrite ==
    /\ rpc = "l125"
    /\ licenses' = [licenses EXCEPT ![RosterOrder[ri]].is_used = FALSE]
    /\ ri' = ri + 1
    /\ rpc' = "l124"
    /\ UNCHANGED <<clock, connections, rnow>>
    /\ UNCHANGED clientVars

schedule_license_expiry_check ==
    \/ ExpiryCheckWake
    \/ ExpiryCheckTest
    \/ ExpiryCheckWrite

\* handle_request, one step of it by a thread that is in state c
handle_request(c) ==
    \/ ReadIsUsed(c)
    \/ CompareNow(c)
    \/ SetUsed(c)
    \/ ReadNow(c)
    \/ SetExpiry(c)
    \/ RespondIssued(c)
    \/ RespondInUse(c)

\* =================================================================== client

\* json.dumps(obj): the text on the wire
json_dumps(obj) == [kind |-> "json", obj |-> <<obj>>]
\* what recv can yield besides a JSON text: nothing, or bytes that do not parse
EmptyText == [kind |-> "empty", obj |-> <<>>]
GarbageText == [kind |-> "garbage", obj |-> <<>>]

\* every response the server can send about the client's holder
ServerResponses ==
    {Response("alice", FALSE, "Token not found", None),
     Response("alice", FALSE, "Invalid key", None),
     ClosedMessage}
    \cup {Response("alice", TRUE, d, e) :
            d \in {"License issued", "License already in use"},
            e \in Times \cup {None}}

\* the same responses from a server that leaves license_user_name out
BareResponses ==
    {[license_valid |-> r.license_valid, description |-> r.description,
      expired |-> r.expired] : r \in ServerResponses}

\* everything one recv of the client can yield
Wire ==
    {json_dumps(r) : r \in ServerResponses \cup BareResponses}
    \cup {EmptyText, GarbageText}

\* client Response(license_valid, description, expired): the token
Token(license_valid, description, expired) ==
    [license_valid |-> license_valid, description |-> description,
     expired |-> expired]

\* the token the request thread stores on a transport failure
FailedToken(description) == Token(FALSE, description, JsonNull)

\* datetime.fromisoformat: the time value of a text
RECURSIVE fromisoformat(_)
fromisoformat(text) ==
    IF Len(text) = 0 THEN None
    ELSE IF Len(text) = 1 THEN text[1]
    ELSE 10 * fromisoformat(SubSeq(text, 1, Len(text) - 1)) + text[Len(text)]

\* Response.get_expiry_time: fromisoformat(self.expired[:-1]), -1 when there
\* is no expired text or when what is left does not parse
get_expiry_time(token) ==
    IF token.expired = JsonNull THEN -1
    ELSE fromisoformat(SubSeq(token.expired, 1, Len(token.expired) - 1))

\* Response.is_valid
is_valid(token) == get_expiry_time(token) > clock

\* Response(**json.loads(response)) in the request thread: the token built,
\* or the exception raised.  The constructor takes exactly license_valid,
\* description and expired, and calls expired.isoformat() unless it is None.
Decode(text) ==
    IF text.kind = "garbage"
    THEN [raised |-> "JSONDecodeError", token |-> <<>>]
    ELSE LET obj == text.obj[1] IN
         IF DOMAIN obj # {"license_valid", "description", "expired"}
         THEN [raised |-> "TypeError", token |-> <<>>]
         ELSE IF obj.expired # JsonNull
         THEN [raised |-> "AttributeError", token |-> <<>>]
         ELSE [raised |-> "",
               token |-> <<Token(obj.license_valid, obj.description,
                                 JsonNull)>>]

\* the except clauses of _request_license_token_thread, lines 108-123
ExceptToken(raised) ==
    CASE raised = "ConnectionRefusedError" -> FailedToken("Server not running")
      [] raised = "JSONDecodeError" -> FailedToken("Invalid JSON response")
      [] raised = "errno10054" -> FailedToken("Connection forcibly closed")
      [] OTHER -> FailedToken("Connection error")

\* ThreadEnds with the fault swallowed and the cached token left as it was
ThreadEnds_TokenKept(t, token) ==
    /\ current_token' = current_token
    /\ tpc' = [tpc EXCEPT ![t] = "none"]
    /\ ttoken' = [ttoken EXCEPT ![t] = <<>>]
    /\ UNCHANGED <<clock, queue>>
    /\ UNCHANGED callerVars
    /\ UNCHANGED serverVars

\* a request thread ends
ThreadEnds(t, token) ==
    /\ current_token' = <<token>>
    /\ tpc' = [tpc EXCEPT ![t] = "none"]
    /\ ttoken' = [ttoken EXCEPT ![t] = <<>>]
    /\ UNCHANGED <<clock, queue>>
    /\ UNCHANGED callerVars
    /\ UNCHANGED serverVars

\* threading.Thread(target=self._request_license_token_thread).start()
StartThread(t) ==
    /\ tpc[t] = "none"
    /\ tpc' = [tpc EXCEPT ![t] = "l92"]

\* request_license_token, called by the owner of the client
request_license_token ==
    /\ \E t \in Threads : StartThread(t)
    /\ UNCHANGED <<clock, current_token, queue, ttoken>>
    /\ UNCHANGED callerVars
    /\ UNCHANGED serverVars

\* get_license_token without the early return of lines 65-67
get_license_token_NoEarlyReturn ==
    /\ IF current_token = <<>> \/ ~is_valid(current_token[1])
       THEN \E t \in Threads : StartThread(t)
       ELSE UNCHANGED tpc
    /\ returned' = <<current_token>>
    /\ UNCHANGED <<clock, current_token, queue, ttoken, api, stopped>>
    /\ UNCHANGED serverVars

\* get_license_token, lines 64-71: None when the cached token says "Server
\* not running" or "Connection error"; otherwise a request is started if the
\* token is absent or not valid, and the cached token is returned
get_license_token ==
    /\ IF /\ current_token # <<>>
          /\ current_token[1].description
               \in {"Server not running", "Connection error"}
       THEN /\ UNCHANGED tpc
            /\ returned' = << <<>> >>
       ELSE /\ IF current_token = <<>> \/ ~is_valid(current_token[1])
               THEN \E t \in Threads : StartThread(t)
               ELSE UNCHANGED tpc
            /\ returned' = <<current_token>>
    /\ UNCHANGED <<clock, current_token, queue, ttoken, api, stopped>>
    /\ UNCHANGED serverVars

\* stop, line 126: self.scheduler.cancel() is called without the event that
\* sched.scheduler.cancel(event) takes, which raises TypeError outside the
\* try of lines 127-133; the call ends there and lines 127-139 never run
stop ==
    /\ stopped' = "TypeError"
    /\ UNCHANGED <<clock, current_token, queue, tpc, ttoken, api, returned>>
    /\ UNCHANGED serverVars

\* request thread, lines 91-94: connect and send the request
Connect(t, raised) ==
    /\ tpc[t] = "l92"
    /\ IF raised = ""
       THEN /\ tpc' = [tpc EXCEPT ![t] = "l95"]
            /\ UNCHANGED <<clock, current_token, queue, ttoken>>
            /\ UNCHANGED callerVars
            /\ UNCHANGED serverVars
       ELSE ThreadEnds(t, ExceptToken(raised))

\* Receive with update_token arming the renewal for every decoded token,
\* valid or not (line 74 left out)
Receive_AlwaysSchedules(t, text, raised) ==
    /\ tpc[t] = "l95"
    /\ IF raised # ""
       THEN ThreadEnds(t, ExceptToken(raised))
       ELSE IF text = EmptyText
       THEN ThreadEnds(t, FailedToken("Empty response from server"))
       ELSE IF Decode(text).raised # ""
       THEN ThreadEnds(t, ExceptToken(Decode(text).raised))
       ELSE LET new_token == Decode(text).token[1] IN
            /\ current_token' = <<new_token>>
            /\ tpc' = [tpc EXCEPT ![t] = "l77"]
            /\ ttoken' = [ttoken EXCEPT ![t] = <<new_token>>]
            /\ UNCHANGED <<clock, queue>>
            /\ UNCHANGED callerVars
            /\ UNCHANGED serverVars

\* request thread, lines 95-107 and update_token lines 74-75, 79: recv,
\* decode and store the token
Receive(t, text, raised) ==
    /\ tpc[t] = "l95"
    /\ IF raised # ""
       THEN ThreadEnds(t, ExceptToken(raised))
       ELSE IF text = EmptyText
       THEN ThreadEnds(t, FailedToken("Empty response from server"))
       ELSE IF Decode(text).raised # ""
       THEN ThreadEnds(t, ExceptToken(Decode(text).raised))
       ELSE LET new_token == Decode(text).token[1] IN
            IF new_token.license_valid
            THEN /\ current_token' = <<new_token>>
                 /\ tpc' = [tpc EXCEPT ![t] = "l77"]
                 /\ ttoken' = [ttoken EXCEPT ![t] = <<new_token>>]
                 /\ UNCHANGED <<clock, queue>>
                 /\ UNCHANGED callerVars
                 /\ UNCHANGED serverVars
            ELSE ThreadEnds(t, new_token)

\* update_token line 77 and schedule_token_renewal: the renewal is entered
\* for time.time() + delay, which is the token's expiry time
schedule_token_renewal(t) ==
    /\ tpc[t] = "l77"
    /\ Len(queue) < MaxQueue
    /\ queue' = Append(queue, get_expiry_time(ttoken[t][1]))
    /\ tpc' = [tpc EXCEPT ![t] = "none"]
    /\ ttoken' = [ttoken EXCEPT ![t] = <<>>]
    /\ UNCHANGED <<clock, current_token>>
    /\ UNCHANGED callerVars
    /\ UNCHANGED serverVars

\* what connect, sendall and recv can raise
SocketErrors == {"ConnectionRefusedError", "errno10054", "OSError"}

\* one step of _request_license_token_thread
request_license_token_thread(t) ==
    \/ \E raised \in SocketErrors \cup {""} : Connect(t, raised)
    \/ \E text \in Wire : Receive(t, text, "")
    \/ \E raised \in SocketErrors \ {"ConnectionRefusedError"} :
         Receive(t, EmptyText, raised)
    \/ schedule_token_renewal(t)

\* the scheduler's run() is called nowhere, so no step takes an event off
\* the queue
ClientNext ==
    \/ Tick
    \/ get_license_token
    \/ request_license_token
    \/ stop
    \/ \E t \in Threads : request_license_token_thread(t)

ClientSpec == Init /\ [][ClientNext]_vars

\* the same client with time passing and every started request thread
\* running on; whether the caller ever calls again is left open
ClientLiveSpec ==
    /\ Init
    /\ [][ClientNext]_vars
    /\ WF_vars(Tick)
    /\ \A t \in Threads : WF_vars(request_license_token_thread(t))

\* =================================================================== server

Next ==
    \/ Tick
    \/ \E data \in Data : LicenseServerRun(data)
    \/ \E data \in Data : StartServer(data)
    \/ \E c \in Running : handle_request(c)
    \/ schedule_license_expiry_check

Spec == Init /\ [][Next]_vars

\* ================================================================== claims

\* the four outcomes of tryIssue, as the reason strings of the responses
Outcomes ==
    {"License issued", "License already in use", "Token not found",
     "Invalid key"}

\* connection c got exactly one response, a "License issued" for holder h
HoldsIssued(c, h) ==
    /\ c.pc = "closed"
    /\ Len(c.sent) = 1
    /\ c.sent[1].license_user_name = h
    /\ c.sent[1].description = "License issued"

\* the lease a response reports has not expired yet
Unexpired(response) ==
    /\ response.expired # JsonNull
    /\ ~(clock > fromisoformat(response.expired))

\* in this step thread c leaves the state it is in
Moved(c) == CopiesIn(c, connections') < CopiesIn(c, connections)

\* in this step a thread comes to be in state d
Arrived(d) == CopiesIn(d, connections') > CopiesIn(d, connections)

\* C1: of the workers that ran tryIssue for the same holder with the correct
\* credential, at most one is answered "License issued" as long as no lease
\* has expired; the others are answered "License already in use".
C1_OneIssuedPerHolder ==
    \A h \in Roster :
        LET issued == {c \in Open :
                         HoldsIssued(c, h) /\ Unexpired(c.sent[1])}
        IN  /\ Cardinality(issued) <= 1
            /\ \A c \in issued : CopiesIn(c, connections) = 1

\* C2: a connection accepted by LicenseServer.run that carries a lease
\* request is answered with exactly one response, and its reason is an
\* outcome of tryIssue.
C2_RunAnswersWithOutcome ==
    [][\A r \in Requests :
         (LicenseServerRun(<<r>>) /\ r.license_key # STOP)
         => \E d \in BagToSet(connections') :
              /\ Arrived(d)
              /\ Len(d.sent) = 1
              /\ d.sent[1].description \in Outcomes]_vars

\* C3: a tryIssue that found the holder not leased answers "License issued"
\* with expiry = now + validation_time, and when it answers (the lease it
\* issued not being over yet) the record is leased with that same expiry.
C3_IssueOnFreeRecord ==
    [][\A c \in Open :
         (Moved(c) /\ c.pc = "l215" /\ ~c.seen.is_used)
         => LET h == holder(c)
                expiry == c.now + licenses[h].validation_time
            IN  ~(clock > expiry)
                => /\ Arrived(Ended(<<Response(h, TRUE, "License issued",
                                               expiry)>>))
                   /\ licenses'[h].is_used
                   /\ licenses'[h].expiry_time = expiry]_vars

\* C4: when the thread compares now with the expiry of a leased record and
\* the lease has not expired (not now > expiry), it goes on to answer
\* "License already in use"; that answer carries the expiry the record has,
\* and no step of the thread on this path writes the record.
C4_InUseLeavesLease ==
    [][\A c \in Open :
         /\ (Moved(c) /\ c.pc = "l211exp")
            => LET license_info == licenses[holder(c)] IN
               (/\ license_info.is_used
                /\ license_info.expiry_time # None
                /\ ~(clock > license_info.expiry_time))
               => /\ Arrived([c EXCEPT !.pc = "l218"])
                  /\ licenses' = licenses
         /\ (Moved(c) /\ c.pc = "l218")
            => /\ Arrived(Ended(<<Response(holder(c), TRUE,
                                           "License already in use",
                                           licenses[holder(c)].expiry_time)>>))
               /\ licenses' = licenses]_vars

\* C4 witness: a connection was answered "License already in use" with the
\* expiry of the lease, and the record still is leased with that expiry
C4_Witness ==
    /\ BagIn(Ended(<<Response("alice", TRUE, "License already in use",
                              licenses["alice"].expiry_time)>>), connections)
    /\ licenses["alice"].is_used
    /\ licenses["alice"].expiry_time # None
    /\ ~(clock > licenses["alice"].expiry_time)

\* C5: a request for a roster holder with any credential other than
\* generate_key(holder) is answered "Invalid key" (valid false, no expiry),
\* and the lease record is left as it was.
C5_WrongKeyLeavesLease ==
    [][\A r \in Requests :
         (/\ r.license_user_name \in Roster
          /\ r.license_key # generate_key(r.license_user_name)
          /\ StartServer(<<r>>))
         => /\ Arrived(Ended(<<Response(r.license_user_name, FALSE,
                                        "Invalid key", None)>>))
            /\ licenses' = licenses]_vars

\* C5 witness: a connection was answered "Invalid key" while the record is
\* leased to someone else and keeps its lease
C5_Witness ==
    /\ BagIn(Ended(<<Response("alice", FALSE, "Invalid key", None)>>),
             connections)
    /\ licenses["alice"].is_used
    /\ BagIn(Ended(<<Response("alice", TRUE, "License issued",
                              licenses["alice"].expiry_time)>>), connections)

\* C6: a request for a holder that is not in the roster is answered
\* "Token not found" (valid false, no expiry) whatever its credential, and
\* no lease record is created or changed.
C6_UnknownHolderNotFound ==
    [][\A r \in Requests :
         (r.license_user_name \notin Roster /\ StartServer(<<r>>))
         => /\ Arrived(Ended(<<Response(r.license_user_name, FALSE,
                                        "Token not found", None)>>))
            /\ licenses' = licenses]_vars

\* C6 witness: an unknown holder was answered "Token not found" and the
\* roster has no record for it
C6_Witness ==
    /\ BagIn(Ended(<<Response("bob", FALSE, "Token not found", None)>>),
             connections)
    /\ "bob" \notin DOMAIN licenses

\* C7: a lease was issued with expiry E, the clock passed E and the expiry
\* check un-leased the record; the tryIssue that finds the record so
\* answers "License issued" with expiry = now + validation_time, later
\* than E.
C7_ReissueAfterReclaim ==
    [][\A c \in Open :
         (Moved(c) /\ c.pc = "l215" /\ c.seen.lapsed # None)
         => LET expiry == c.now + licenses[holder(c)].validation_time IN
            /\ Arrived(Ended(<<Response(holder(c), TRUE, "License issued",
                                        expiry)>>))
            /\ expiry > c.seen.lapsed]_vars

\* C8: a request whose credential is "STOP" never goes into handle_request,
\* is never answered "Invalid key" and changes no lease record.
C8_StopIsNotMatched ==
    [][\A u \in Names :
         (StartServer(<<Request(u, STOP)>>)
            \/ LicenseServerRun(<<Request(u, STOP)>>))
         => /\ \A d \in BagToSet(connections') :
                 Arrived(d)
                 => /\ d.pc = "closed"
                    /\ \A i \in 1..Len(d.sent) :
                         d.sent[i].description # "Invalid key"
            /\ licenses' = licenses]_vars

\* C9: a record that is leased has its expiry set.
C9_LeasedHasExpiry ==
    \A u \in Roster : licenses[u].is_used => licenses[u].expiry_time # None

\* C10: at most one request thread of the client is alive at any time.
C10_SingleFlight ==
    Cardinality({t \in Threads : tpc[t] # "none"}) <= 1

\* no request thread of the client is alive
Idle == \A t \in Threads : tpc[t] = "none"

\* C11: once a successful token is cached and its renewal is armed, a new
\* request round trip is started without any call from the caller (armed is
\* always eventually followed by requesting), unless stop() is called first.
C11_RenewalFires ==
    (/\ current_token # <<>>
     /\ current_token[1].license_valid
     /\ queue # <<>>
     /\ Idle
     /\ stopped = "") ~> (~Idle \/ stopped # "")

\* a token that reports a failure is cached
FailureCached ==
    /\ current_token # <<>>
    /\ ~current_token[1].license_valid

\* C12: no step of a request cycle before update_token's arming changes the
\* scheduler queue; a cycle that ends without arming has cached a failed
\* token (valid false), only a successful token goes on to line 77, and a
\* request thread is started by a call of the caller only.
C12_FailureArmsNothing ==
    [][/\ \A t \in Threads :
            (tpc[t] \in {"l92", "l95"} /\ tpc'[t] # tpc[t])
            => /\ queue' = queue
               /\ tpc'[t] = "none"
                  => /\ current_token' # <<>>
                     /\ ~current_token'[1].license_valid
               /\ tpc'[t] = "l77"
                  => /\ current_token' = ttoken'[t]
                     /\ current_token'[1].license_valid
               /\ \A u \in Threads \ {t} : tpc'[u] = tpc[u]
       /\ (\E t \in Threads : tpc[t] = "none" /\ tpc'[t] # "none")
          => (get_license_token \/ request_license_token)]_vars

\* C12 witness: after a renewal was armed, a later cycle ended with the
\* failure "Invalid key" cached and the queue still holds that one event
C12_Witness ==
    /\ FailureCached
    /\ current_token[1].description = "Invalid key"
    /\ Idle
    /\ Len(queue) = 1

\* the fields of the instance as lines 135-139 of stop() would leave them
Cleared ==
    [license_user_name |-> "None", license_key |-> "None",
     server_address |-> "None", server_port |-> 0]

\* C13: a call of stop() returns normally in every state of the client, and
\* on return no renewal event is armed and the cached token, the holder
\* name, the key and the server address are cleared.
C13_StopCompletes ==
    [][stop => /\ stopped' = "returned"
               /\ queue' = <<>>
               /\ current_token' = <<>>
               /\ api' = Cleared]_vars

\* C14: once stop() has been called, no renewal event is armed and the
\* token cache is not filled again, also not by a request round trip that
\* was started before the call and completes after it.
C14_NothingAfterStop ==
    [][stopped # ""
       => /\ Len(queue') <= Len(queue)
          /\ current_token' \in {current_token, <<>>}]_vars

\* C15: when the request thread receives what the server encoded for a
\* Response with one of the four outcomes, the token it caches has the
\* valid flag, the reason and the expiry of that Response.
C15_WireRoundTrip ==
    [][\A t \in Threads, r \in ServerResponses :
         (r.description \in Outcomes /\ Receive(t, json_dumps(r), ""))
         => current_token' = <<Token(r.license_valid, r.description,
                                     r.expired)>>]_vars

\* the reasons of the tokens the request thread makes up for a fault
FaultReasons ==
    {"Server not running", "Connection error", "Connection forcibly closed",
     "Invalid JSON response", "Empty response from server"}

\* request thread t meets a transport fault in this step: connect, sendall
\* or recv raises, or recv yields nothing or bytes that are no JSON
Fault(t) ==
    \/ \E raised \in SocketErrors :
         Connect(t, raised) \/ Receive(t, EmptyText, raised)
    \/ Receive(t, EmptyText, "")
    \/ Receive(t, GarbageText, "")

\* C16: every transport fault ends the request thread normally with the
\* cached token replaced by a failed token: valid false, no expiry, and a
\* reason out of FaultReasons.
C16_FaultsBecomeTokens ==
    [][\A t \in Threads :
         Fault(t)
         => /\ tpc'[t] = "none"
            /\ \E d \in FaultReasons :
                 current_token' = <<FailedToken(d)>>]_vars

\* C16 witness: a request thread has ended on a connection reset and the
\* cached token says so
C16_Witness ==
    /\ Idle
    /\ current_token = <<FailedToken("Connection forcibly closed")>>

\* C17: under any interleaving of the reclaimer with handlers in flight, the
\* write of line 125 sets is_used to False only on a record whose expiry is
\* set and earlier than the clock at the moment of the write (so never on a
\* lease that a handler renewed between the test of line 124 and the write),
\* and no step of the reclaimer changes an expiry
C17_ReclaimOnlyExpired ==
    [][schedule_license_expiry_check
         => /\ \A u \in Roster : licenses'[u].expiry_time = licenses[u].expiry_time
            /\ \A u \in Roster :
                 (licenses[u].is_used /\ ~licenses'[u].is_used)
                 => /\ licenses[u].expiry_time # None
                    /\ licenses[u].expiry_time < clock]_vars

\* C18: in every reachable state of the client the scheduler queue holds at
\* most one pending renewal event, however many requests have completed
C18_OneRenewalArmed == Len(queue) <= 1

\* C19: every response sent with license_valid true ("License issued" or
\* "License already in use") carries an expiry that is not null, under every
\* interleaving of the handlers of one holder.  (The claim also bounds that
\* expiry from below by the clock at the decision; a response with a null
\* expiry already has no expiry to compare.)
C19_ValidCarriesExpiry ==
    \A c \in BagToSet(connections) :
        \A i \in 1..Len(c.sent) :
            c.sent[i].license_valid => c.sent[i].expired # JsonNull

\* the cached token is one of the two failures get_license_token gives up on
Stuck ==
    /\ current_token # <<>>
    /\ current_token[1].description \in {"Server not running", "Connection error"}

\* C20: once the cached token says "Server not running" or "Connection
\* error", a call of get_license_token returns no token, starts no request
\* and leaves the cached token as it is, so no number of such calls leaves
\* that state; with any other cached token that is absent or not valid, the
\* call starts a request.
C20_StuckAfterConnectionFailure ==
    [][get_license_token
         => /\ Stuck => /\ returned' = << <<>> >>
                        /\ tpc' = tpc
                        /\ current_token' = current_token
                        /\ queue' = queue
                        /\ Stuck'
            /\ (/\ ~Stuck
                /\ \/ current_token = <<>>
                   \/ ~current_token[1].license_valid
                   \/ ~is_valid(current_token[1]))
               => \E t \in Threads : tpc[t] = "none" /\ tpc'[t] = "l92"]_vars

\* get_license_token was called, returned nothing, and the failure that
\* blocks it is cached with no request in flight
C20_Witness ==
    /\ Stuck
    /\ current_token[1].description = "Server not running"
    /\ returned = << <<>> >>
    /\ Idle
====
